---- MODULE Spec2Model ----
(***************************************************************************)
(* Model of the fluent CRUD builders of include/mysqlx/collection_crud.h:  *)
(* CollectionAddBase / CollectionAdd, CollectionFind, CollectionRemove,    *)
(* CollectionModify and the CollectionSort stage.                          *)
(*                                                                         *)
(* One operation object is built at a time.  The program holds references  *)
(* to it under several static types ("surfaces"); which methods a call may *)
(* use is decided by the static type of the reference it goes through.     *)
(*                                                                         *)
(* Spec follows one builder up to its first execute or failure.            *)
(* SessionSpec follows a program beyond it: rebinding and executing again, *)
(* moving a CollectionAdd, destroying the collection, and taking further   *)
(* builders from the same session.                                         *)
(***************************************************************************)
EXTENDS Integers, Sequences, FiniteSets, TLC

(* ------------------------------ bounds --------------------------------- *)

\* configuration calls (everything but the entry call and execute) per run
MaxCalls == 4
\* the same for a Remove or Modify operation, which has one stage fewer
MaxShortCalls == 3
\* arguments of one variadic add(...) / sort(...) call, elements of one iterable
MaxArgs == 2

(* ------------------------------ inputs --------------------------------- *)

\* documents: a JSON text or a DbDoc (the two do_add overloads)
Docs == {[tag |-> "json", id |-> 1], [tag |-> "doc", id |-> 2]}
\* characters of a sort key; a key is a non-empty string of them
Chars == {"a", "b"}
Keys == {<<c>> : c \in Chars}
Exprs == {"a > :p"}
Rows == {1, 2}
Params == {"p", "q"}
Values == {1, 2}
\* the bind(name, value) calls tried
BindArgs == {<<"p", 1>>, <<"p", 2>>, <<"q", 1>>}
Fields == {"f"}
\* update values: a literal or a named-parameter reference
ExprValues == {"1", ":q"}

SeqsUpTo(S, lo, hi) == UNION {[1..n -> S] : n \in lo..hi}

(* ------------------------------ surface -------------------------------- *)

UpdateMethods == {"set", "unset", "arrayInsert", "arrayAppend", "arrayDelete"}

\* mysqlx/task.h (not in this fragment): the stage fragments
OffersExecutable == {"execute"}
OffersBindExec == {"bind"} \cup OffersExecutable
OffersOffset == {"offset"} \cup OffersBindExec
\* Limit<R,H=R> : virtual H declares limit() alone
OffersLimit(offersH) == {"limit"} \cup offersH
\* CollectionSort<R,H=R> : virtual H declares sort() alone
OffersCollectionSort(offersH) == {"sort"} \cup offersH

\* mutant: the entry builder is an Executable too
OffersCollectionAddBase_executable == {"add"} \cup OffersExecutable

\* class CollectionAddBase : public CollectionAddInterface<CollectionAdd>
OffersCollectionAddBase == {"add"}
\* class CollectionAdd : public Executable, public CollectionAddInterface<CollectionAdd&>
OffersCollectionAdd == {"add"} \cup OffersExecutable

\* mutant: typedef Limit<Offset> CollectionFindLimit, whose base is Offset
CollectionFindLimit_over_Offset ==
  [offers |-> OffersLimit(OffersOffset), limitRet |-> "Offset"]

\* typedef Limit<Offset,BindExec> CollectionFindLimit
CollectionFindLimit == [offers |-> OffersLimit(OffersBindExec), limitRet |-> "Offset"]
\* mutant: typedef Limit<Offset,BindExec> CollectionRemoveLimit
CollectionRemoveLimit_as_Find ==
  [offers |-> OffersLimit(OffersBindExec), limitRet |-> "Offset"]

\* typedef Limit<BindExec> CollectionRemoveLimit
CollectionRemoveLimit == [offers |-> OffersLimit(OffersBindExec), limitRet |-> "BindExec"]
\* typedef Limit<BindExec> CollectionModifyLimit
CollectionModifyLimit == [offers |-> OffersLimit(OffersBindExec), limitRet |-> "BindExec"]

Surfaces ==
  {"CollectionAddBase", "CollectionAdd",
   "CollectionFindSort", "CollectionFindLimit", "Offset", "BindExec",
   "CollectionRemoveOrder", "CollectionRemoveLimit",
   "CollectionModify", "CollectionModifyOp", "CollectionModifyLimit"}

\* the public methods a reference of static type s offers
Offers(s) ==
  CASE s = "CollectionAddBase" -> OffersCollectionAddBase
    [] s = "CollectionAdd" -> OffersCollectionAdd
    [] s = "CollectionFindLimit" -> CollectionFindLimit.offers
    [] s = "CollectionFindSort" -> OffersCollectionSort(CollectionFindLimit.offers)
    [] s = "Offset" -> OffersOffset
    [] s = "BindExec" -> OffersBindExec
    [] s = "CollectionRemoveLimit" -> CollectionRemoveLimit.offers
    [] s = "CollectionRemoveOrder" -> OffersCollectionSort(CollectionRemoveLimit.offers)
    [] s = "CollectionModifyLimit" -> CollectionModifyLimit.offers
    [] s = "CollectionModifyOp" ->
         UpdateMethods \cup OffersCollectionSort(CollectionModifyLimit.offers)
    [] s = "CollectionModify" -> UpdateMethods
    [] OTHER -> {}

\* CollectionSort<R,H>::sort returns R&, R being the Limit stage of the kind
SortRet(s) ==
  CASE s = "CollectionFindSort" -> "CollectionFindLimit"
    [] s = "CollectionRemoveOrder" -> "CollectionRemoveLimit"
    [] s = "CollectionModifyOp" -> "CollectionModifyLimit"
    [] OTHER -> "BindExec"

\* Limit<R,H>::limit returns R& (do_limit: Offset& for Find, BindExec& else)
LimitRet(s) ==
  CASE s \in {"CollectionFindSort", "CollectionFindLimit"} -> CollectionFindLimit.limitRet
    [] s \in {"CollectionRemoveOrder", "CollectionRemoveLimit"} -> CollectionRemoveLimit.limitRet
    [] s \in {"CollectionModifyOp", "CollectionModifyLimit"} -> CollectionModifyLimit.limitRet
    [] OTHER -> "BindExec"

\* Offset::offset returns BindExec& (FindExec::do_offset)
OffsetRet == "BindExec"
\* BindExec::bind returns BindExec&
BindRet == "BindExec"

(* ------------------------------- state --------------------------------- *)

VARIABLES
  build,      \* "any", or "permissive" once the compiler has let ill-formed code pass
  entry,      \* <<>> or <<the Collection call that created the builder>>
  kind,       \* "none" | "add" | "find" | "remove" | "modify"
  held,       \* static types of the references to the operation the program holds
  last,       \* <<s>>: static type of the value the most recent call returned
  chained,    \* every call so far went through the value the previous call returned
  calls,      \* the calls made so far, in program order: [m, arg]
  status,     \* "building", "executed", "dropped", "ill_formed" or an error kind
  docs,       \* AddState: documents to insert
  filter,     \* <<>> or <<expr>>
  updates,    \* ModifyState: update steps
  sortKeys,   \* sort keys
  limit,      \* <<>> or <<rows>>
  offset,     \* <<>> or <<rows>>
  bindings,   \* binding table: parameter name -> value
  wire,       \* requests submitted to the session, in order
  source,     \* <<>> or <<the CollectionAdd a move constructor took the task from>>
  collAlive   \* the Collection the builder was obtained from still exists

opVars == <<docs, filter, updates, sortKeys, limit, offset, bindings>>
refVars == <<held, last, chained>>
sessVars == <<source, collAlive>>
vars == <<build, entry, kind, held, last, chained, calls, status,
          docs, filter, updates, sortKeys, limit, offset, bindings, wire,
          source, collAlive>>

NoBindings == [x \in {} |-> 0]

Init ==
  /\ build = "any"
  /\ entry = <<>>
  /\ kind = "none"
  /\ held = {}
  /\ last = <<>>
  /\ chained = TRUE
  /\ calls = <<>>
  /\ status = "building"
  /\ docs = <<>>
  /\ filter = <<>>
  /\ updates = <<>>
  /\ sortKeys = <<>>
  /\ limit = <<>>
  /\ offset = <<>>
  /\ bindings = NoBindings
  /\ wire = <<>>
  /\ source = <<>>
  /\ collAlive = TRUE

Call(m, arg) == [m |-> m, arg |-> arg]

\* number of configuration calls made so far
NCalls == Len(calls)
CallCap == IF kind \in {"remove", "modify"} THEN MaxShortCalls ELSE MaxCalls

\* the reference a call goes through: the value the previous call returned
\* when it declares the method, else a reference kept from an earlier call
\* (all of them refer to the one operation object)
Through(s, m) ==
  /\ s \in held
  /\ m \in Offers(s)
  /\ (last # <<s>>) => (m \notin Offers(last[1]))

\* a call of method m through a held reference of static type s is well-formed
CanCall(s, m) ==
  /\ status = "building"
  /\ Through(s, m)
  /\ NCalls < CallCap

\* bookkeeping of a call through s that returned a reference of type r
Returned(s, r, c) ==
  /\ held' = held \cup {r}
  /\ last' = <<r>>
  /\ chained' = (chained /\ last = <<s>>)
  /\ calls' = Append(calls, c)

(* -------------------------------- Add ---------------------------------- *)

\* argument packs of MaxArgs documents
AddPacks == SeqsUpTo(Docs, MaxArgs, MaxArgs)

\* CollectionAdd::initialize(): an empty document list
initialize == <<>>

\* CollectionAdd::do_add(const string&) / do_add(const DbDoc&): append
do_add(list, doc) == Append(list, doc)

\* mutant: the constructor forgets the first document
CollectionAdd_ctor_without_add(doc) == initialize

\* CollectionAdd(Collection&, const D &doc): initialize(); do_add(doc);
CollectionAdd_ctor(doc) == do_add(initialize, doc)

\* CollectionAddBase::do_add: return CollectionAdd(m_coll, doc);
CollectionAddBase_do_add(doc) == CollectionAdd_ctor(doc)

\* mutant: Executable(other), the task is copied and the source keeps its own
CollectionAdd_copy(other) ==
  [new |-> [docs |-> other.docs, moved |-> FALSE],
   old |-> [docs |-> other.docs, moved |-> FALSE]]

\* CollectionAdd(CollectionAdd &&other): Executable(std::move(other)) hands the
\* task, and with it the document list, to the new object and leaves the
\* source without one
CollectionAdd_move(other) ==
  [new |-> [docs |-> other.docs, moved |-> FALSE],
   old |-> [docs |-> <<>>, moved |-> TRUE]]

\* do_add(first).add(rest...) on a CollectionAdd: left to right
RECURSIVE add_pack(_, _)
add_pack(list, pack) ==
  IF pack = <<>> THEN list
  ELSE add_pack(do_add(list, Head(pack)), Tail(pack))

\* return std::move(do_add(first).add(rest...)) with R = CollectionAdd& binds
\* an lvalue reference to an xvalue: ill-formed; with R = CollectionAdd the
\* inner add(rest...) is that same instantiation once rest has two elements
RECURSIVE VariadicAddWellFormed(_, _)
VariadicAddWellFormed(s, n) ==
  IF s = "CollectionAdd" THEN n < 2
  ELSE n <= 2 \/ VariadicAddWellFormed("CollectionAdd", n - 1)

\* Collection::add(): the entry builder, no document yet
NewAdd ==
  /\ kind = "none" /\ status = "building"
  /\ kind' = "add"
  /\ entry' = <<Call("add", <<>>)>>
  /\ held' = {"CollectionAddBase"}
  /\ last' = <<"CollectionAddBase">>
  /\ UNCHANGED <<sessVars, build, chained, calls, status, opVars, wire>>

\* mutant: add submits the document at once
add_and_send(s, doc) ==
  /\ CanCall(s, "add")
  /\ docs' = IF s = "CollectionAddBase" THEN CollectionAddBase_do_add(doc)
             ELSE do_add(docs, doc)
  /\ held' = {"CollectionAdd"}
  /\ last' = <<"CollectionAdd">>
  /\ chained' = (chained /\ last = <<s>>)
  /\ calls' = Append(calls, Call("add", <<doc>>))
  /\ wire' = Append(wire, [kind |-> "add", docs |-> <<doc>>])
  /\ UNCHANGED <<sessVars, build, entry, kind, status, filter, updates, sortKeys, limit, offset,
                 bindings>>

\* R add(const D &doc) { return do_add(doc); }
add(s, doc) ==
  /\ CanCall(s, "add")
  /\ docs' = IF s = "CollectionAddBase" THEN CollectionAddBase_do_add(doc)
             ELSE do_add(docs, doc)
  /\ held' = {"CollectionAdd"}
  /\ last' = <<"CollectionAdd">>
  /\ chained' = (chained /\ last = <<s>>)
  /\ calls' = Append(calls, Call("add", <<doc>>))
  /\ UNCHANGED <<sessVars, build, entry, kind, status, filter, updates, sortKeys, limit, offset,
                 bindings, wire>>

\* R add(const D &first, Types... rest)
add_variadic(s, pack) ==
  /\ CanCall(s, "add")
  /\ calls' = Append(calls, Call("add", pack))
  /\ chained' = (chained /\ last = <<s>>)
  /\ \/ /\ VariadicAddWellFormed(s, Len(pack))
        /\ UNCHANGED build
     \/ /\ ~VariadicAddWellFormed(s, Len(pack))
        /\ build' = "permissive"
  /\ docs' = IF s = "CollectionAddBase"
             THEN CollectionAdd_move(
                    [docs |-> add_pack(CollectionAddBase_do_add(Head(pack)), Tail(pack)),
                     moved |-> FALSE]).new.docs
             ELSE add_pack(do_add(docs, Head(pack)), Tail(pack))
  /\ held' = {"CollectionAdd"}
  /\ last' = <<"CollectionAdd">>
  /\ UNCHANGED <<sessVars, entry, kind, status, filter, updates, sortKeys, limit, offset,
                 bindings, wire>>

\* the same call under a conforming compiler: the instantiation does not compile
add_variadic_rejected(s, pack) ==
  /\ CanCall(s, "add")
  /\ build = "any"
  /\ ~VariadicAddWellFormed(s, Len(pack))
  /\ calls' = Append(calls, Call("add", pack))
  /\ chained' = (chained /\ last = <<s>>)
  /\ status' = "ill_formed"
  /\ UNCHANGED <<sessVars, build, entry, kind, held, last, opVars, wire>>

\* argument validation of do_add: malformed JSON text is refused
ValidDoc(doc) == doc.tag = "json" => doc.id # 0

\* do_add(first).add(rest...) with do_add throwing InvalidArgument at the
\* first document it refuses: the documents before it have been appended
RECURSIVE add_pack_until_throw(_, _)
add_pack_until_throw(list, pack) ==
  IF pack = <<>> \/ ~ValidDoc(Head(pack)) THEN list
  ELSE add_pack_until_throw(do_add(list, Head(pack)), Tail(pack))

\* the refused calls tried: add(bad) and add(d, bad)
BadAddPacks ==
  {<<[tag |-> "json", id |-> 0]>>,
   <<[tag |-> "doc", id |-> 2], [tag |-> "json", id |-> 0]>>}

\* add(d) or add(d1, ..., dN) with a document that do_add refuses.  On the
\* entry builder the documents went to a temporary CollectionAdd, which the
\* exception destroys; on a CollectionAdd they went to the operation itself
add_invalid(s, pack) ==
  /\ CanCall(s, "add")
  /\ \/ VariadicAddWellFormed(s, Len(pack)) /\ UNCHANGED build
     \/ ~VariadicAddWellFormed(s, Len(pack)) /\ build' = "permissive"
  /\ docs' = IF s = "CollectionAddBase" THEN docs
             ELSE add_pack_until_throw(docs, pack)
  /\ status' = "InvalidArgument"
  /\ calls' = Append(calls, Call("add", pack))
  /\ chained' = (chained /\ last = <<s>>)
  /\ UNCHANGED <<sessVars, entry, kind, held, last, filter, updates, sortKeys,
                 limit, offset, bindings, wire>>

(* ------------------------------- Sort ---------------------------------- *)

\* do_sort(const string&): append one key to the sort list
do_sort(list, key) == Append(list, key)

\* the implicit conversion of the argument to the const string& that do_sort
\* takes: the same characters, as wide characters
string_from(ord) == [i \in DOMAIN ord |-> [wide |-> ord[i]]]

\* R& sort(const string&) / sort(const char*): return do_sort(ord);
sort_text(list, key) == do_sort(list, string_from(key))

\* template <typename Ord> R& sort(Ord ord):
\*   for (auto el : ord) ret = &do_sort(ord);
RECURSIVE sort_loop(_, _, _)
sort_loop(list, ord, rest) ==
  IF rest = <<>> THEN list
  ELSE sort_loop(do_sort(list, string_from(ord)), ord, Tail(rest))

sort_iterable(list, ord) == sort_loop(list, ord, ord)

\* mutant: sort(rest...) runs before do_sort(ord)
RECURSIVE sort_pack_rest_first(_, _)
sort_pack_rest_first(list, pack) ==
  IF Len(pack) = 1 THEN sort_text(list, Head(pack))
  ELSE do_sort(sort_pack_rest_first(list, Tail(pack)), string_from(Head(pack)))

\* template <typename Ord, typename...Type> R& sort(Ord ord, const Type...rest):
\*   do_sort(ord); return sort(rest...);   (text keys)
RECURSIVE sort_pack(_, _)
sort_pack(list, pack) ==
  IF Len(pack) = 1 THEN sort_text(list, Head(pack))
  ELSE sort_pack(do_sort(list, string_from(Head(pack))), Tail(pack))

\* the argument pack tried: MaxArgs keys "b", "a", "b", ...
SortPacks ==
  {[i \in 1..MaxArgs |-> IF i % 2 = 1 THEN <<"b">> ELSE <<"a">>]}
\* the non-empty iterable tried: the MaxArgs characters "abab..."
Iterables ==
  {[i \in 1..MaxArgs |-> IF i % 2 = 1 THEN "a" ELSE "b"]}

sort(s, key) ==
  /\ CanCall(s, "sort")
  /\ sortKeys' = sort_text(sortKeys, key)
  /\ Returned(s, SortRet(s), Call("sort", <<key>>))
  /\ UNCHANGED <<sessVars, build, entry, kind, status, docs, filter, updates, limit, offset,
                 bindings, wire>>

sort_variadic(s, pack) ==
  /\ CanCall(s, "sort")
  /\ sortKeys' = sort_pack(sortKeys, pack)
  /\ Returned(s, SortRet(s), Call("sort", pack))
  /\ UNCHANGED <<sessVars, build, entry, kind, status, docs, filter, updates, limit, offset,
                 bindings, wire>>

\* sort(Ord) with a non-empty iterable
sort_iter(s, ord) ==
  /\ CanCall(s, "sort")
  /\ ord # <<>>
  /\ sortKeys' = sort_iterable(sortKeys, ord)
  /\ Returned(s, SortRet(s), Call("sort_iterable", ord))
  /\ UNCHANGED <<sessVars, build, entry, kind, status, docs, filter, updates, limit, offset,
                 bindings, wire>>

\* sort(Ord) with an empty iterable: the loop never runs and the call returns
\* *ret with ret == NULL; the program either dies there or goes on with a
\* reference bound to no object
sort_iter_empty(s) ==
  /\ CanCall(s, "sort")
  /\ calls' = Append(calls, Call("sort_iterable", <<>>))
  /\ chained' = (chained /\ last = <<s>>)
  /\ \/ /\ status' = "crashed"
        /\ UNCHANGED last
     \/ /\ last' = <<"NullRef">>
        /\ UNCHANGED status
  /\ UNCHANGED <<sessVars, build, entry, kind, held, opVars, wire>>

\* argument validation of do_sort: an empty or whitespace-only key is refused
ValidKey(key) == \E i \in DOMAIN key : key[i] # " "

\* do_sort(ord); return sort(rest...); with do_sort throwing InvalidArgument
\* at the first key it refuses: the keys before it have been appended
RECURSIVE sort_pack_until_throw(_, _)
sort_pack_until_throw(list, pack) ==
  IF pack = <<>> \/ ~ValidKey(Head(pack)) THEN list
  ELSE sort_pack_until_throw(do_sort(list, string_from(Head(pack))), Tail(pack))

\* the refused calls tried: sort(" ") and sort("a", ..., "")
BadSortPacks ==
  {<< <<" ">> >>, [i \in 1..MaxArgs |-> IF i = MaxArgs THEN <<>> ELSE <<"a">>]}
\* the refused iterable tried: MaxArgs blanks
BadIterables == {[i \in 1..MaxArgs |-> " "]}

\* sort(key) or sort(k1, ..., kM) with a key that do_sort refuses
sort_invalid(s, pack) ==
  /\ CanCall(s, "sort")
  /\ \E i \in DOMAIN pack : ~ValidKey(pack[i])
  /\ sortKeys' = sort_pack_until_throw(sortKeys, pack)
  /\ status' = "InvalidArgument"
  /\ calls' = Append(calls, Call("sort", pack))
  /\ chained' = (chained /\ last = <<s>>)
  /\ UNCHANGED <<sessVars, build, entry, kind, held, last, docs, filter, updates,
                 limit, offset, bindings, wire>>

\* sort(Ord) with an iterable that do_sort refuses: the first do_sort(ord) throws
sort_iter_invalid(s, ord) ==
  /\ CanCall(s, "sort")
  /\ ord # <<>> /\ ~ValidKey(ord)
  /\ status' = "InvalidArgument"
  /\ calls' = Append(calls, Call("sort_iterable", ord))
  /\ chained' = (chained /\ last = <<s>>)
  /\ UNCHANGED <<sessVars, build, entry, kind, held, last, opVars, wire>>

(* ----------------------- Limit, Offset, Bind --------------------------- *)

\* do_limit(unsigned rows): overwrite
do_limit(rows) == <<rows>>
\* do_offset(unsigned rows): overwrite
do_offset(rows) == <<rows>>
\* mutant: insert only, an existing entry stays
do_bind_insert_only(table, name, val) ==
  [x \in DOMAIN table \cup {name} |-> IF x \in DOMAIN table THEN table[x] ELSE val]

\* bind(name, value): insert or overwrite
do_bind(table, name, val) ==
  [x \in DOMAIN table \cup {name} |-> IF x = name THEN val ELSE table[x]]

limit_(s, rows) ==
  /\ CanCall(s, "limit")
  /\ limit' = do_limit(rows)
  /\ Returned(s, LimitRet(s), Call("limit", <<rows>>))
  /\ UNCHANGED <<sessVars, build, entry, kind, status, docs, filter, updates, sortKeys, offset,
                 bindings, wire>>

offset_(s, rows) ==
  /\ CanCall(s, "offset")
  /\ offset' = do_offset(rows)
  /\ Returned(s, OffsetRet, Call("offset", <<rows>>))
  /\ UNCHANGED <<sessVars, build, entry, kind, status, docs, filter, updates, sortKeys, limit,
                 bindings, wire>>

bind(s, name, val) ==
  /\ CanCall(s, "bind")
  /\ bindings' = do_bind(bindings, name, val)
  /\ Returned(s, BindRet, Call("bind", <<name, val>>))
  /\ UNCHANGED <<sessVars, build, entry, kind, status, docs, filter, updates, sortKeys, limit,
                 offset, wire>>

(* ----------------------- Find, Remove, Modify -------------------------- *)

\* CollectionFind::find() / find(const string&) return CollectionFindSort&
find(f) ==
  /\ kind = "none" /\ status = "building"
  /\ kind' = "find"
  /\ entry' = <<Call("find", f)>>
  /\ filter' = f
  /\ held' = {"CollectionFindSort"}
  /\ last' = <<"CollectionFindSort">>
  /\ UNCHANGED <<sessVars, build, chained, calls, status, docs, updates, sortKeys,
                 limit, offset, bindings, wire>>

\* CollectionRemove::remove() / remove(const string&) return CollectionRemoveOrder&
remove(f) ==
  /\ kind = "none" /\ status = "building"
  /\ kind' = "remove"
  /\ entry' = <<Call("remove", f)>>
  /\ filter' = f
  /\ held' = {"CollectionRemoveOrder"}
  /\ last' = <<"CollectionRemoveOrder">>
  /\ UNCHANGED <<sessVars, build, chained, calls, status, docs, updates, sortKeys,
                 limit, offset, bindings, wire>>

\* CollectionModifyBase::modify() / modify(const string &expr) return a
\* CollectionModify by value; modify() matches all
modify(f) ==
  /\ kind = "none" /\ status = "building"
  /\ kind' = "modify"
  /\ entry' = <<Call("modify", f)>>
  /\ filter' = IF f = <<>> THEN <<"">> ELSE f
  /\ held' = {"CollectionModify"}
  /\ last' = <<"CollectionModify">>
  /\ UNCHANGED <<sessVars, build, chained, calls, status, docs, updates, sortKeys,
                 limit, offset, bindings, wire>>

Filters == {<<>>} \cup {<<e>> : e \in Exprs}

\* do_set / do_unset / do_arrayInsert / do_arrayAppend / do_arrayDelete:
\* append one update step
do_update(list, step) == Append(list, step)

\* mutant: arrayAppend forwards to do_arrayInsert
do_hook_append_as_insert(m) ==
  CASE m = "set" -> "SET"
    [] m = "unset" -> "UNSET"
    [] m = "arrayInsert" -> "ARRAY_INSERT"
    [] m = "arrayAppend" -> "ARRAY_INSERT"
    [] m = "arrayDelete" -> "ARRAY_DELETE"

\* the do_* hook each public update method forwards to
do_hook(m) ==
  CASE m = "set" -> "SET"
    [] m = "unset" -> "UNSET"
    [] m = "arrayInsert" -> "ARRAY_INSERT"
    [] m = "arrayAppend" -> "ARRAY_APPEND"
    [] m = "arrayDelete" -> "ARRAY_DELETE"

\* methods taking (field, value); unset and arrayDelete take the field alone
TakesValue(m) == m \in {"set", "arrayInsert", "arrayAppend"}

UpdateArgs(m) ==
  IF m = "set" THEN {<<f, v>> : f \in Fields, v \in ExprValues}
  ELSE IF TakesValue(m) THEN {<<f, "1">> : f \in Fields}
  ELSE {<<f>> : f \in Fields}

\* mutant: the value is not forwarded to the hook
update_without_value(s, m, arg) ==
  /\ CanCall(s, m)
  /\ updates' = do_update(updates, [op |-> do_hook(m), arg |-> <<arg[1]>>])
  /\ Returned(s, "CollectionModifyOp", Call(m, arg))
  /\ UNCHANGED <<sessVars, build, entry, kind, status, docs, filter, sortKeys, limit,
                 offset, bindings, wire>>

\* CollectionModifyInterface::set / unset / arrayInsert / arrayAppend /
\* arrayDelete return CollectionModifyOp&
update(s, m, arg) ==
  /\ CanCall(s, m)
  /\ updates' = do_update(updates, [op |-> do_hook(m), arg |-> arg])
  /\ Returned(s, "CollectionModifyOp", Call(m, arg))
  /\ UNCHANGED <<sessVars, build, entry, kind, status, docs, filter, sortKeys, limit, offset,
                 bindings, wire>>

(* ------------------------------ Execute -------------------------------- *)

\* named parameters an expression text refers to
RefsOfExpr(e) == IF e = "a > :p" THEN {"p"} ELSE {}
RefsOfValue(v) == IF v = ":q" THEN {"q"} ELSE {}

Referenced ==
  UNION {RefsOfExpr(filter[i]) : i \in DOMAIN filter}
  \cup UNION {RefsOfValue(updates[i].arg[2]) :
                i \in {j \in DOMAIN updates : Len(updates[j].arg) = 2}}

\* the normalized CRUD request handed to the protocol encoder
Request ==
  [kind |-> kind, filter |-> filter, updates |-> updates, sort |-> sortKeys,
   limit |-> limit, offset |-> offset, docs |-> docs, bindings |-> bindings]

\* mutant: the queue hands out the newest request first
Submit_front(queue, req) == <<req>> \o queue

\* Session: submit(request), the session's request queue
Submit(queue, req) == Append(queue, req)

\* validate, serialize, submit.  The builder reaches its collection through a
\* plain reference (Collection &m_coll): once the collection is destroyed the
\* reference dangles and using it is undefined, the program dies or the
\* request goes out as if nothing had happened
Run ==
  IF kind = "add" /\ docs = <<>>
  THEN status' = "EmptyBatch" /\ UNCHANGED wire
  ELSE IF ~(Referenced \subseteq DOMAIN bindings)
  THEN status' = "UnresolvedBinding" /\ UNCHANGED wire
  ELSE IF ~collAlive
  THEN \/ status' = "crashed" /\ UNCHANGED wire
       \/ status' = "executed" /\ wire' = Submit(wire, Request)
  ELSE status' = "executed" /\ wire' = Submit(wire, Request)

\* Executable::execute() on a state that has not been executed
execute(s) ==
  /\ status = "building"
  /\ Through(s, "execute")
  /\ calls' = Append(calls, Call("execute", <<>>))
  /\ chained' = (chained /\ last = <<s>>)
  /\ Run
  /\ UNCHANGED <<sessVars, build, entry, kind, held, last, opVars>>

\* the builder goes out of scope without execute
drop ==
  /\ status = "building"
  /\ kind # "none"
  /\ status' = "dropped"
  /\ UNCHANGED <<sessVars, build, entry, kind, refVars, calls, opVars, wire>>

\* the methods a program is seen to try where they are not declared
TriedMethods == {"sort", "limit", "offset", "execute", "set"}

\* a call of a method the static type of the reference does not declare:
\* the program is rejected
reject(s, m) ==
  /\ status = "building"
  /\ NCalls < CallCap
  /\ s \in held
  /\ last = <<s>>
  /\ m \notin Offers(s)
  /\ status' = "ill_formed"
  /\ calls' = Append(calls, Call(m, <<>>))
  /\ chained' = (chained /\ last = <<s>>)
  /\ UNCHANGED <<sessVars, build, entry, kind, held, last, opVars, wire>>

Next ==
  \/ NewAdd
  \/ \E s \in held, d \in Docs : add(s, d)
  \/ \E s \in held, pack \in AddPacks : add_variadic(s, pack)
  \/ \E s \in held, pack \in AddPacks : add_variadic_rejected(s, pack)
  \/ \E f \in Filters : find(f)
  \/ \E f \in Filters : remove(f)
  \/ \E f \in Filters : modify(f)
  \/ \E s \in held, k \in Keys : sort(s, k)
  \/ \E s \in held, pack \in SortPacks : sort_variadic(s, pack)
  \/ \E s \in held, ord \in Iterables : sort_iter(s, ord)
  \/ \E s \in held : sort_iter_empty(s)
  \/ \E s \in held, pack \in BadAddPacks : add_invalid(s, pack)
  \/ \E s \in held, pack \in BadSortPacks : sort_invalid(s, pack)
  \/ \E s \in held, ord \in BadIterables : sort_iter_invalid(s, ord)
  \/ \E s \in held, n \in Rows : limit_(s, n)
  \/ \E s \in held, n \in Rows : offset_(s, n)
  \/ \E s \in held, b \in BindArgs : bind(s, b[1], b[2])
  \/ \E s \in held, m \in UpdateMethods : \E arg \in UpdateArgs(m) : update(s, m, arg)
  \/ \E s \in held : execute(s)
  \/ drop
  \/ \E s \in held, m \in TriedMethods : reject(s, m)

Spec == Init /\ [][Next]_vars

(* ------------- the session: beyond a builder's first execute ----------- *)

\* requests one session is seen to carry
MaxRequests == 2

\* the inputs of the programs that go on after an execute: one document,
\* the parameter the filter names bound and bound again
SessionDocs == {[tag |-> "json", id |-> 1]}
SessionBinds == {<<"p", 1>>, <<"p", 2>>}

\* CollectionAdd b(std::move(a)): b takes the task, the program keeps a
move_builder ==
  /\ kind = "add" /\ status = "building"
  /\ "CollectionAdd" \in held
  /\ source = <<>>
  /\ LET m == CollectionAdd_move([docs |-> docs, moved |-> FALSE]) IN
       /\ docs' = m.new.docs
       /\ source' = <<m.old>>
  /\ UNCHANGED <<build, entry, kind, refVars, calls, status, filter, updates,
                 sortKeys, limit, offset, bindings, wire, collAlive>>

\* a.execute() on the source of the move: Executable::execute() on an object
\* whose task has been moved away
execute_source ==
  /\ status = "building"
  /\ source # <<>>
  /\ calls' = Append(calls, Call("execute", <<"moved-from">>))
  /\ IF source[1].moved
     THEN status' = "StageMisuse" /\ UNCHANGED wire
     ELSE /\ status' = "executed"
          /\ wire' = Submit(wire, [Request EXCEPT !.docs = source[1].docs])
  /\ UNCHANGED <<build, entry, kind, refVars, opVars, sessVars>>

\* bind(name, value) on an executed state: the rebind
rebind(s, name, val) ==
  /\ status \in {"executed", "rebound"}
  /\ Through(s, "bind")
  /\ NCalls < CallCap
  /\ bindings' = do_bind(bindings, name, val)
  /\ status' = "rebound"
  /\ Returned(s, BindRet, Call("bind", <<name, val>>))
  /\ UNCHANGED <<build, entry, kind, docs, filter, updates, sortKeys, limit,
                 offset, wire, sessVars>>

\* mutant: the request serialized by the first execute is kept and sent again
reexecute_cached(s) ==
  /\ status \in {"executed", "rebound"}
  /\ Through(s, "execute")
  /\ Len(wire) < MaxRequests
  /\ calls' = Append(calls, Call("execute", <<>>))
  /\ chained' = (chained /\ last = <<s>>)
  /\ IF status = "executed"
     THEN status' = "StageMisuse" /\ UNCHANGED wire
     ELSE status' = "executed" /\ wire' = Submit(wire, wire[Len(wire)])
  /\ UNCHANGED <<build, entry, kind, held, last, opVars, sessVars>>

\* Executable::execute() on an executed state: accepted after a rebind only
reexecute(s) ==
  /\ status \in {"executed", "rebound"}
  /\ Through(s, "execute")
  /\ Len(wire) < MaxRequests
  /\ calls' = Append(calls, Call("execute", <<>>))
  /\ chained' = (chained /\ last = <<s>>)
  /\ IF status = "executed"
     THEN status' = "StageMisuse" /\ UNCHANGED wire
     ELSE Run
  /\ UNCHANGED <<build, entry, kind, held, last, opVars, sessVars>>

\* add, sort, limit, offset or an update step on an executed state
misuse(s, m) ==
  /\ status \in {"executed", "rebound"}
  /\ Through(s, m)
  /\ m \notin {"bind", "execute"}
  /\ status' = "StageMisuse"
  /\ calls' = Append(calls, Call(m, <<>>))
  /\ chained' = (chained /\ last = <<s>>)
  /\ UNCHANGED <<build, entry, kind, held, last, opVars, wire, sessVars>>

\* the Collection object goes out of scope while the program holds a builder
destroy_collection ==
  /\ collAlive
  /\ kind # "none"
  /\ status \in {"building", "executed", "rebound"}
  /\ collAlive' = FALSE
  /\ UNCHANGED <<build, entry, kind, refVars, calls, status, opVars, wire, source>>

\* the program is done with the builder and asks the collection for another
next_builder ==
  /\ status \in {"executed", "rebound"}
  /\ collAlive
  /\ Len(wire) < MaxRequests
  /\ kind' = "none" /\ entry' = <<>> /\ held' = {} /\ last' = <<>>
  /\ chained' = TRUE /\ calls' = <<>> /\ status' = "building"
  /\ docs' = <<>> /\ filter' = <<>> /\ updates' = <<>> /\ sortKeys' = <<>>
  /\ limit' = <<>> /\ offset' = <<>> /\ bindings' = NoBindings
  /\ source' = <<>>
  /\ UNCHANGED <<build, wire, collAlive>>

SessionNext ==
  \/ NewAdd
  \/ \E s \in held, d \in SessionDocs : add(s, d)
  \/ \E f \in Filters : find(f)
  \/ \E s \in held, b \in SessionBinds : bind(s, b[1], b[2])
  \/ \E s \in held : execute(s)
  \/ move_builder
  \/ execute_source
  \/ \E s \in held, b \in SessionBinds : rebind(s, b[1], b[2])
  \/ \E s \in held : reexecute(s)
  \/ \E s \in held, m \in {"add", "sort", "limit", "offset"} : misuse(s, m)
  \/ destroy_collection
  \/ next_builder

SessionSpec == Init /\ [][SessionNext]_vars

(* ======================= history of the calls ========================== *)

NoCalls == calls = <<>>
LastCall == calls[Len(calls)]
\* the configuration calls: everything before a final execute
ConfigCalls ==
  IF ~NoCalls /\ LastCall.m = "execute" THEN SubSeq(calls, 1, Len(calls) - 1)
  ELSE calls
ExecuteCalled == ~NoCalls /\ LastCall.m = "execute"

RECURSIVE Flatten(_)
Flatten(ss) == IF ss = <<>> THEN <<>> ELSE Head(ss) \o Flatten(Tail(ss))

\* the arguments of the calls of cs whose method is in ms, call by call
ArgsOf(cs, ms) ==
  LET RECURSIVE pick(_)
      pick(rest) ==
        IF rest = <<>> THEN <<>>
        ELSE IF Head(rest).m \in ms THEN <<Head(rest).arg>> \o pick(Tail(rest))
        ELSE pick(Tail(rest))
  IN pick(cs)

AddRequest(list) ==
  [kind |-> "add", filter |-> <<>>, updates |-> <<>>, sort |-> <<>>,
   limit |-> <<>>, offset |-> <<>>, docs |-> list, bindings |-> NoBindings]

(* ============================== claims ================================= *)

\* C1: add(d1) on a fresh CollectionAddBase, then add(d2) ... add(dN) on the
\* returned CollectionAdd, then execute, sends one Add request whose document
\* list is exactly [d1, ..., dN]: N entries, in call order
C1_SequentialAdds ==
  (/\ kind = "add"
   /\ ExecuteCalled
   /\ Len(ConfigCalls) >= 1
   /\ \A i \in DOMAIN ConfigCalls :
        ConfigCalls[i].m = "add" /\ Len(ConfigCalls[i].arg) = 1)
  => /\ status = "executed"
     /\ wire = <<AddRequest([i \in DOMAIN ConfigCalls |-> ConfigCalls[i].arg[1]])>>

\* three sequential adds, a document repeated, then execute
C1_Witness ==
  /\ kind = "add"
  /\ status = "executed"
  /\ Len(ConfigCalls) = 3
  /\ \A i \in DOMAIN ConfigCalls : Len(ConfigCalls[i].arg) = 1
  /\ ConfigCalls[1].arg = ConfigCalls[3].arg
  /\ ConfigCalls[1].arg # ConfigCalls[2].arg
  /\ Len(wire[1].docs) = 3

\* C2: no Add request with an empty document list is ever sent: a reference
\* on which execute can be invoked holds at least one document, the entry
\* builder CollectionAddBase offers add but no execute, and an execute of an
\* Add without documents ends in EmptyBatch before any wire I/O
C2_NoEmptyAdd ==
  /\ (kind = "add" /\ docs = <<>> /\ status = "building")
       => \A s \in held : "add" \in Offers(s) /\ "execute" \notin Offers(s)
  /\ (kind = "add" /\ \E s \in held : "execute" \in Offers(s)) => Len(docs) >= 1
  /\ \A i \in DOMAIN wire : wire[i].kind = "add" => wire[i].docs # <<>>
  /\ (kind = "add" /\ docs = <<>>) => wire = <<>>
  /\ status = "EmptyBatch" => wire = <<>>

\* an Add with its single document has been executed
C2_Witness ==
  /\ kind = "add"
  /\ status = "executed"
  /\ Len(calls) = 2
  /\ Len(wire) = 1
  /\ Len(wire[1].docs) = 1

\* C3: the variadic call add(d1, ..., dN) leaves the operation with the same
\* document list as the N sequential calls add(d1)...add(dN), on the entry
\* builder and on an existing CollectionAdd alike
C3_VariadicAddIsSequentialAdds ==
  (kind = "add" /\ ~NoCalls /\ LastCall.m = "add")
  => docs = add_pack(initialize, Flatten(ArgsOf(calls, {"add"})))

\* the stage of a method in Sort, Limit, Offset, Bind, Execute
StageRank(m) ==
  CASE m \in {"sort", "sort_iterable"} -> 1
    [] m = "limit" -> 2
    [] m = "offset" -> 3
    [] m = "bind" -> 4
    [] m = "execute" -> 5
    [] OTHER -> 0

\* the keys one sort call declares, one per element of its argument
KeysOfCall(c) ==
  IF c.m = "sort" THEN [i \in DOMAIN c.arg |-> string_from(c.arg[i])]
  ELSE IF c.m = "sort_iterable" THEN [i \in DOMAIN c.arg |-> string_from(<<c.arg[i]>>)]
  ELSE <<>>

DeclaredKeys(cs) == Flatten([i \in DOMAIN cs |-> KeysOfCall(cs[i])])

\* cs is sort^M limit offset bind, or a prefix of it followed by one more
\* call of the chain, every sort passing text keys
IsFindChain(cs) ==
  /\ \A i \in DOMAIN cs : cs[i].m \in {"sort", "limit", "offset", "bind", "execute"}
  /\ cs # <<>> => StageRank(cs[1].m) <= 2
  /\ \A i \in 1..(Len(cs) - 1) :
       \/ cs[i].m = "sort" /\ cs[i + 1].m = "sort"
       \/ StageRank(cs[i + 1].m) = StageRank(cs[i].m) + 1

\* the whole chain: sort calls, then limit, offset, bind
IsWholeFindChain(cs) ==
  /\ IsFindChain(cs)
  /\ Len(cs) >= 3
  /\ cs[Len(cs)].m = "bind"
  /\ \A i \in DOMAIN cs : cs[i].arg # <<>>

\* the request the chain cs on find(f) describes
FindRequestOf(f, cs) ==
  LET n == Len(cs) IN
  [kind |-> "find", filter |-> f, updates |-> <<>>, sort |-> DeclaredKeys(cs),
   limit |-> <<cs[n - 2].arg[1]>>, offset |-> <<cs[n - 1].arg[1]>>, docs |-> <<>>,
   bindings |-> [x \in {cs[n].arg[1]} |-> cs[n].arg[2]]]

C5_SortAppendsEachKey ==
  kind \in {"find", "remove", "modify"} => sortKeys = DeclaredKeys(calls)

\* the accepted calls of method m, in order
Accepted(m) ==
  LET RECURSIVE pick(_)
      pick(rest) ==
        IF rest = <<>> THEN <<>>
        ELSE IF Head(rest).m = m /\ Head(rest).arg # <<>>
             THEN <<Head(rest)>> \o pick(Tail(rest))
             ELSE pick(Tail(rest))
  IN pick(calls)

\* <<>> or the argument of the last accepted call of m
LastWritten(m) ==
  IF Accepted(m) = <<>> THEN <<>> ELSE <<Accepted(m)[Len(Accepted(m))].arg[1]>>

BoundNames == {Accepted("bind")[i].arg[1] : i \in DOMAIN Accepted("bind")}

LastBound(p) ==
  LET is == {i \in DOMAIN Accepted("bind") : Accepted("bind")[i].arg[1] = p}
      i == CHOOSE i \in is : \A j \in is : j <= i
  IN Accepted("bind")[i].arg[2]

\* C6 as stated: the chains limit(a).limit(b), offset(a).offset(b) and
\* bind(p,v1).bind(p,v2) are accepted
C6_RepeatChainAccepted ==
  (/\ chained
   /\ Len(calls) >= 2
   /\ LastCall.m \in {"limit", "offset", "bind"}
   /\ calls[Len(calls) - 1].m = LastCall.m)
  => status # "ill_formed"

\* C6, amended: limit, offset and same-name bind are last-write-wins when the
\* call is repeated through a reference that offers it (limit(a).limit(b) and
\* offset(a).offset(b) as chains are rejected: limit returns the next stage);
\* bind(p,v1).bind(p,v2) chains; the request carries the last values
C6_LastWriteWins ==
  kind \in {"find", "remove", "modify"}
  => /\ limit = LastWritten("limit")
     /\ offset = LastWritten("offset")
     /\ DOMAIN bindings = BoundNames
     /\ \A p \in BoundNames : bindings[p] = LastBound(p)
     /\ (~NoCalls /\ LastCall.m = "bind" /\ status = "building")
          => "bind" \in Offers(last[1])
     /\ status = "executed"
          => /\ wire[1].limit = LastWritten("limit")
             /\ wire[1].offset = LastWritten("offset")
             /\ wire[1].bindings = [p \in BoundNames |-> LastBound(p)]

\* f.limit(1); f.limit(2).bind("p", 1).bind("p", 2).execute()
C6_Witness ==
  /\ kind = "find"
  /\ status = "executed"
  /\ Len(calls) = 5
  /\ calls[1] = Call("limit", <<1>>)
  /\ calls[2] = Call("limit", <<2>>)
  /\ calls[3] = Call("bind", <<"p", 1>>)
  /\ calls[4] = Call("bind", <<"p", 2>>)
  /\ wire[1].limit = <<2>>
  /\ wire[1].bindings["p"] = 2

\* the value the last call returned declares no method of an earlier stage
NoEarlierStageOnReturnedValue ==
  (status = "building" /\ ~NoCalls)
  => \A m \in Offers(last[1]) : StageRank(m) = 0 \/ StageRank(m) >= StageRank(LastCall.m)

\* C7: on a Find builder no method of an earlier stage can be called on the
\* value a later stage's method returned, offset can be called only after
\* limit, and no Find request carries an offset without a limit
C7_FindStageOrder ==
  kind = "find"
  => /\ NoEarlierStageOnReturnedValue
     /\ \A i \in DOMAIN calls :
          (calls[i].m = "offset" /\ calls[i].arg # <<>>)
          => \E j \in 1..(i - 1) : calls[j].m = "limit" /\ calls[j].arg # <<>>
     /\ offset # <<>> => limit # <<>>
     /\ \A i \in DOMAIN wire : wire[i].offset # <<>> => wire[i].limit # <<>>

\* find().sort(k).limit(a).offset(b).execute()
C7_Witness ==
  /\ kind = "find"
  /\ status = "executed"
  /\ chained
  /\ [i \in DOMAIN calls |-> calls[i].m] = <<"sort", "limit", "offset", "execute">>
  /\ wire[1].offset # <<>>
  /\ wire[1].limit # <<>>

\* C8: Remove and Modify builders follow Sort, Limit, Bind, Execute and never
\* offer offset: the offset field is absent in every state and every request
C8_NoOffsetOnRemoveModify ==
  kind \in {"remove", "modify"}
  => /\ offset = <<>>
     /\ \A s \in held : "offset" \notin Offers(s)
     /\ \A i \in DOMAIN calls : calls[i].m = "offset" => calls[i].arg = <<>>
     /\ \A i \in DOMAIN wire : wire[i].offset = <<>>
     /\ NoEarlierStageOnReturnedValue

\* remove(expr).sort(k).limit(a).bind("p", v).execute()
C8_Witness ==
  /\ kind = "remove"
  /\ status = "executed"
  /\ chained
  /\ [i \in DOMAIN calls |-> calls[i].m] = <<"sort", "limit", "bind", "execute">>
  /\ wire[1].limit # <<>>
  /\ wire[1].offset = <<>>

\* the update step a public update method declares
StepOf(c) ==
  [op |-> CASE c.m = "set" -> "SET"
            [] c.m = "unset" -> "UNSET"
            [] c.m = "arrayInsert" -> "ARRAY_INSERT"
            [] c.m = "arrayAppend" -> "ARRAY_APPEND"
            [] c.m = "arrayDelete" -> "ARRAY_DELETE",
   arg |-> c.arg]

DeclaredSteps ==
  LET RECURSIVE pick(_)
      pick(rest) ==
        IF rest = <<>> THEN <<>>
        ELSE IF Head(rest).m \in UpdateMethods /\ Head(rest).arg # <<>>
             THEN <<StepOf(Head(rest))>> \o pick(Tail(rest))
             ELSE pick(Tail(rest))
  IN pick(calls)

\* C9: update steps may be interleaved with sort/limit/bind calls, and the
\* Modify request carries the filter, then the update steps in exactly their
\* declaration order, then the sort keys, then the limit
C9_ModifyRequestOrder ==
  kind = "modify"
  => /\ updates = DeclaredSteps
     /\ status = "executed"
          => wire = <<[kind |-> "modify",
                       filter |-> IF entry[1].arg = <<>> THEN <<"">> ELSE entry[1].arg,
                       updates |-> DeclaredSteps,
                       sort |-> sortKeys,
                       limit |-> LastWritten("limit"),
                       offset |-> <<>>,
                       docs |-> <<>>,
                       bindings |-> bindings]>>

\* op.arrayAppend(f, 1); op.sort(k); op.arrayInsert(f, 1); op.execute()
C9_Witness ==
  /\ kind = "modify"
  /\ status = "executed"
  /\ Len(calls) = 4
  /\ calls[1].m = "arrayAppend"
  /\ calls[2].m = "sort"
  /\ calls[3].m = "arrayInsert"
  /\ Len(wire[1].updates) = 2
  /\ wire[1].sort # <<>>

\* C10: nothing is sent before execute: configuration calls only change the
\* operation state, and a builder dropped without execute has sent nothing
C10_NothingSentBeforeExecute ==
  /\ ~ExecuteCalled => wire = <<>>
  /\ status # "executed" => wire = <<>>
  /\ status = "dropped" => wire = <<>>
  /\ Len(wire) <= 1

\* an Add with documents dropped without execute
C10_Witness ==
  /\ status = "dropped"
  /\ kind = "add"
  /\ Len(docs) >= 2
  /\ wire = <<>>

\* the named parameters the program has referred to: in the filter given to
\* the entry call and in the values given to update steps
ReferencedByCalls ==
  UNION {RefsOfExpr(entry[1].arg[i]) : i \in DOMAIN entry[1].arg}
  \cup UNION {RefsOfValue(calls[i].arg[2]) :
                i \in {j \in DOMAIN calls :
                         calls[j].m \in UpdateMethods /\ Len(calls[j].arg) = 2}}

\* C13: execute of a Find, Remove or Modify whose filter or update steps name
\* a parameter that no bind call has bound ends in UnresolvedBinding with
\* nothing sent; with every named parameter bound it does not
C13_UnresolvedBinding ==
  (/\ kind \in {"find", "remove", "modify"}
   /\ ExecuteCalled
   /\ status # "ill_formed")
  => IF ReferencedByCalls \subseteq BoundNames
     THEN status = "executed" /\ Len(wire) = 1
     ELSE status = "UnresolvedBinding" /\ wire = <<>>

\* modify(expr).set(f, :q).bind("p", v).execute(): p is bound, q is not
C13_Witness ==
  /\ kind = "modify"
  /\ status = "UnresolvedBinding"
  /\ entry[1].arg = <<"a > :p">>
  /\ [i \in DOMAIN calls |-> calls[i].m] = <<"set", "bind", "execute">>
  /\ calls[1].arg[2] = ":q"
  /\ BoundNames = {"p"}
  /\ wire = <<>>

\* the step is a call: it adds one entry to the history
IsCall == Len(calls') = Len(calls) + 1
NewCall == calls'[Len(calls')]

\* the error kinds a builder method or execute fails with
ErrorKinds ==
  {"InvalidArgument", "StageMisuse", "EmptyBatch", "UnresolvedBinding", "CollectionGone"}

\* C14: a call that fails leaves the operation state exactly as it was before
\* the call: of a variadic add or sort, or an iterable sort, that fails on its
\* i-th element none of the elements before it stay appended
C14_Transactional ==
  [][(IsCall /\ status = "building" /\ status' \in ErrorKinds)
     => opVars' = opVars]_vars

\* a key with no character other than blanks, the empty key included
IsBlank(key) == \A i \in DOMAIN key : key[i] = " "

\* the sort call c passes a blank key: as one of its text arguments, or as
\* the string handed to sort(Ord)
PassesBlankKey(c) ==
  \/ c.m = "sort" /\ \E i \in DOMAIN c.arg : IsBlank(c.arg[i])
  \/ c.m = "sort_iterable" /\ IsBlank(c.arg)

\* C15: a sort call that passes an empty or whitespace-only key fails there
\* with InvalidArgument and leaves the sort key list as it was
C15_BlankKeyRejected ==
  [][(IsCall /\ status = "building" /\ PassesBlankKey(NewCall))
     => /\ status' = "InvalidArgument"
        /\ sortKeys' = sortKeys]_vars

\* C19: sort(iterable) returns a reference to the operation it was called on,
\* the Limit stage of its kind, for an empty iterable too, whose call leaves
\* the sort key list as it was
C19_SortIterableReturnsBuilder ==
  [][(/\ IsCall
      /\ status = "building"
      /\ NewCall.m = "sort_iterable"
      /\ status' # "InvalidArgument")
     => /\ status' = "building"
        /\ last' \in {<<"CollectionFindLimit">>, <<"CollectionRemoveLimit">>,
                      <<"CollectionModifyLimit">>}
        /\ last'[1] \in held'
        /\ NewCall.arg = <<>> => sortKeys' = sortKeys]_vars

(* ------------------------- claims on the session ----------------------- *)

\* this builder has been executed: an execute() on it is in the history
ExecutedBefore ==
  \E i \in DOMAIN calls : calls[i].m = "execute" /\ calls[i].arg = <<>>

\* the calls made since the last execute
SinceExecute ==
  LET is == {i \in DOMAIN calls : calls[i].m = "execute"}
      n == IF is = {} THEN 0 ELSE CHOOSE i \in is : \A j \in is : j <= i
  IN SubSeq(calls, n + 1, Len(calls))

\* C11: execute on a moved-from builder (the CollectionAdd a move constructor
\* took its task from), or on a builder already executed with no bind since,
\* ends in StageMisuse and leaves the wire as it was
C11_InertBuilders ==
  [][(/\ IsCall
      /\ NewCall.m = "execute"
      /\ \/ NewCall.arg = <<"moved-from">>
         \/ ExecutedBefore /\ SinceExecute = <<>>)
     => /\ status' = "StageMisuse"
        /\ wire' = wire]_vars

\* with one request of an earlier builder on the wire, the source of a move
\* has been executed
C11_Witness ==
  /\ status = "StageMisuse"
  /\ kind = "add"
  /\ LastCall = Call("execute", <<"moved-from">>)
  /\ source # <<>>
  /\ Len(docs) >= 2
  /\ Len(wire) = 1

\* C12: on an executed state a second execute is accepted only when every
\* call since the first is a bind, and then sends a fresh request carrying the
\* bindings as rebound; a non-bind mutation of an executed state is rejected
\* and sends nothing
C12_ReexecuteAfterRebindOnly ==
  [][(IsCall /\ ExecutedBefore)
     => /\ (NewCall.m = "execute" /\ wire' # wire)
             => /\ \A i \in DOMAIN SinceExecute : SinceExecute[i].m = "bind"
                /\ status' = "executed"
                /\ wire' = Append(wire,
                     [kind |-> kind, filter |-> entry[1].arg, updates |-> <<>>,
                      sort |-> <<>>, limit |-> <<>>, offset |-> <<>>, docs |-> docs,
                      bindings |-> [p \in BoundNames |-> LastBound(p)]])
        /\ NewCall.m \notin {"bind", "execute"}
             => status' = "StageMisuse" /\ wire' = wire]_vars

\* f.bind("p", 1); f.execute(); f.bind("p", 2); f.execute()
C12_Witness ==
  /\ kind = "find"
  /\ status = "executed"
  /\ [i \in DOMAIN calls |-> calls[i].m] = <<"bind", "execute", "bind", "execute">>
  /\ Len(wire) = 2
  /\ wire[1].bindings["p"] = 1
  /\ wire[2].bindings["p"] = 2

\* C16: an execute issued after the collection is gone passes its own
\* validation, then fails with CollectionGone and sends nothing
C16_CollectionGone ==
  [][(/\ IsCall
      /\ NewCall = Call("execute", <<>>)
      /\ ~collAlive
      /\ status' \notin {"EmptyBatch", "UnresolvedBinding", "StageMisuse"})
     => /\ status' = "CollectionGone"
        /\ wire' = wire]_vars

\* C17: every successful execute puts exactly one request on the session, at
\* the tail of the requests already there, and nothing else touches them:
\* requests reach the server in the order of the executes, whether they come
\* from one builder or from successive builders of the session
C17_OneRoundTripInOrder ==
  [][/\ Len(wire') \in {Len(wire), Len(wire) + 1}
     /\ SubSeq(wire', 1, Len(wire)) = wire
     /\ (Len(wire') = Len(wire) + 1)
          <=> (IsCall /\ NewCall.m = "execute" /\ status' = "executed")
     /\ (Len(wire') = Len(wire) + 1) => wire'[Len(wire')] = Request]_vars

\* an Add and then a Find of the same session have been executed
C17_Witness ==
  /\ Len(wire) = 2
  /\ wire[1].kind = "add"
  /\ wire[2].kind = "find"
  /\ status = "executed"

====
